---- MODULE Spec2Model ----
(***************************************************************************)
(* CROSS ROADS reservation back end.                                       *)
(*                                                                         *)
(*   src/server.js                    the HTTP server: POST and GET        *)
(*                                    /api/reservations, e-mail start-up   *)
(*   src/send-confirmation-emails.js  the batch sender                     *)
(*                                                                         *)
(* Three specifications share the variables:                               *)
(*   Spec       the server: start-up, the clock, concurrent POST handlers  *)
(*   SpecList   GET /api/reservations over the stores the server can leave *)
(*   SpecBatch  one run of the batch sender over such a store              *)
(***************************************************************************)
EXTENDS Naturals, Integers, Sequences, FiniteSets, TLC

VARIABLES
    serverPc,        \* "starting" until initializeEmail() resolved, then "listening"
    startFiles,      \* the directory reservations-data as the process found it
    credsSet,        \* process.env.GMAIL_USER && process.env.GMAIL_PASSWORD
    transporter,     \* server.js:30, "null" or "gmail"
    emailConfigured, \* server.js:31
    clock,           \* the wall clock in milliseconds, read by Date.now()
    files,           \* the directory reservations-data: file name -> content
    req,             \* one POST /api/reservations handler per request
    listResp,        \* the last response of GET /api/reservations
    bpc,             \* batch sender: position in sendConfirmationEmails()
    bfiles,          \* batch sender: const files (line 31)
    bidx,            \* batch sender: index of the record being processed
    blog             \* batch sender: the sendMail calls and their outcomes

vars == <<serverPc, startFiles, credsSet, transporter, emailConfigured, clock, files,
          req, listResp, bpc, bfiles, bidx, blog>>

startVars == <<serverPc, startFiles, credsSet, transporter, emailConfigured>>
batchVars == <<bpc, bfiles, bidx, blog>>

----------------------------------------------------------------------------
(* Bounds *)

NumReqs == 2
MaxClock == 2
MaxStored == 3

Reqs == 1..NumReqs

----------------------------------------------------------------------------
(* JavaScript values: strings, numbers, undefined, null.  An ISO-8601      *)
(* timestamp is a string; it is kept by the millisecond it renders.        *)

Str(s) == [t |-> "str", v |-> s]
Num(n) == [t |-> "num", n |-> n]
Iso(ms) == [t |-> "iso", ms |-> ms]
Undef == [t |-> "undef"]
Null == [t |-> "null"]
NaN == [t |-> "nan"]

\* ToBoolean, as the ! operator applies it
Truthy(v) ==
    CASE v.t = "str" -> v.v # ""
      [] v.t = "num" -> v.n # 0
      [] v.t = "iso" -> TRUE
      [] OTHER -> FALSE

\* The digits of the numeric strings the inputs use
NumericStrings == {<<"2", 2>>, <<"4", 4>>}

\* ToNumber, as the - operator applies it to each operand
ToNumber(v) ==
    CASE v.t = "num" -> v
      [] v.t = "null" -> Num(0)
      [] v.t = "str" ->
            IF v.v = "" THEN Num(0)
            ELSE IF \E p \in NumericStrings : p[1] = v.v
                 THEN Num((CHOOSE p \in NumericStrings : p[1] = v.v)[2])
                 ELSE NaN
      [] OTHER -> NaN   \* undefined, and a date string such as 2024-01-01T00:00:00.000Z

\* a - b
Subtract(a, b) ==
    LET x == ToNumber(a)
        y == ToNumber(b)
    IN IF x.t = "nan" \/ y.t = "nan" THEN NaN ELSE Num(x.n - y.n)

\* toISOString of the instant ms
ToISOString(ms) == Iso(ms)

----------------------------------------------------------------------------
(* Request bodies *)

Required == {"name", "phone", "email", "date", "time", "guests"}

AnaBody ==
    [name |-> Str("Ana"), phone |-> Str("214-555-0100"), email |-> Str("ana@example.com"),
     date |-> Str("2024-05-01"), time |-> Str("19:00"), guests |-> Num(2),
     notes |-> Undef]

BoBody ==
    [name |-> Str("Bo"), phone |-> Str("214-555-0101"), email |-> Str("bo@example.com"),
     date |-> Str("2024-05-02"), time |-> Str("20:30"), guests |-> Str("4"),
     notes |-> Str("window seat")]

ValidBodies == {AnaBody, BoBody}

\* one required field absent or empty, or a guest count of 0
InvalidBodies ==
    {[AnaBody EXCEPT ![f] = v] : f \in Required, v \in {Undef, Str("")}}
      \cup {[AnaBody EXCEPT !.guests = Num(0)]}

Bodies == ValidBodies \cup InvalidBodies

----------------------------------------------------------------------------
(* The record store: files of the directory reservations-data *)

FileName(id) == [prefix |-> "reservation-", id |-> id]
OtherFile == [prefix |-> "README", id |-> 0]

\* f.startsWith('reservation-')
IsReservationFile(f) == f.prefix = "reservation-"

\* the object literal of server.js:68-78: Date.now() (line 69) read the clock at
\* idMs and new Date() (line 77) read it again at atMs
ReservationData(body, idMs, atMs) ==
    [id |-> Num(idMs), name |-> body.name, phone |-> body.phone, email |-> body.email,
     date |-> body.date, time |-> body.time, guests |-> body.guests,
     notes |-> body.notes, submittedAt |-> ToISOString(atMs)]

\* JSON.stringify(obj, null, 2): the text holds the keys whose value is not undefined
JsonStringify(obj) ==
    [kind |-> "json",
     obj |-> [k \in {k \in DOMAIN obj : obj[k].t # "undef"} |-> obj[k]]]

\* what a write that failed after the file was opened leaves behind
PartialText == [kind |-> "partial"]

\* JSON.parse throws on a text that is no JSON document
JsonParseThrows(text) == text.kind # "json"
JsonParse(text) == text.obj

\* obj.key of a parsed object: undefined when the key is absent
Get(obj, k) == IF k \in DOMAIN obj THEN obj[k] ELSE Undef

\* path.join(dataDir, `reservation-${reservationData.id}.json`)
FilePathFixed(data) == FileName(0)

FilePath(data) == FileName(data.id.n)

\* fs.writeFileSync(path, text): the outcomes of the write
\*   "ok"     the file holds text
\*   "eopen"  the open failed (permission denied): the directory is unchanged
\*   "ewrite" the file was created or truncated and the write failed (disk full)
WriteOutcomes == {"ok", "eopen", "ewrite"}

WriteFileSync(dir, path, text, outcome) ==
    CASE outcome = "ok" -> (path :> text) @@ dir
      [] outcome = "ewrite" -> (path :> PartialText) @@ dir
      [] OTHER -> dir

WriteThrows(outcome) == outcome # "ok"

----------------------------------------------------------------------------
(* POST /api/reservations, server.js:56-184 *)

MsgMissing == <<"Missing required fields">>
FallbackPhone == "(214) 555-1234"
MsgFailed == <<"Failed to process reservation. Please try again or call ", FallbackPhone>>
MsgEmailSent == <<"Reservation submitted! You will receive a confirmation email shortly.">>
MsgReceived == <<"Reservation received! We will contact you shortly to confirm.">>

\* an entry of a handler's trace: what it did, and for a send, to whom
Ev(e, to) == [e |-> e, to |-> to]
Did(e) == Ev(e, "-")

\* a handler that has not been entered
IdleReq ==
    [pc |-> "idle", body |-> Null, data |-> Null, status |-> 0, success |-> FALSE,
     message |-> <<>>, emailSent |-> FALSE, trace |-> <<>>]

\* !name || !phone || !email || !date || !time || !guests
MissingRequiredNoGuests(body) ==
    \/ ~Truthy(body.name) \/ ~Truthy(body.phone) \/ ~Truthy(body.email)
    \/ ~Truthy(body.date) \/ ~Truthy(body.time)

MissingRequired(body) ==
    \/ ~Truthy(body.name) \/ ~Truthy(body.phone) \/ ~Truthy(body.email)
    \/ ~Truthy(body.date) \/ ~Truthy(body.time) \/ ~Truthy(body.guests)

\* emailConfigured && transporter
EmailEnabledTransporterOnly(cfg, tr) == tr # "null"

EmailEnabled(cfg, tr) == cfg /\ tr # "null"

\* the message of the 200 response
SuccessMessageAlwaysSent(emailSent) == MsgEmailSent

SuccessMessage(emailSent) == IF emailSent THEN MsgEmailSent ELSE MsgReceived

\* res.status(status).json({success, message})
Respond(q, status, success, message) ==
    [q EXCEPT !.pc = "done", !.status = status, !.success = success,
              !.message = message, !.trace = Append(@, Did("responded"))]

\* lines 170-175
RespondSuccess(q) == Respond(q, 200, TRUE, SuccessMessage(q.emailSent))

\* the outer catch, lines 176-183
RespondErrorAsSuccess(q) == Respond(q, 200, TRUE, MsgReceived)

RespondError(q) == Respond(q, 500, FALSE, MsgFailed)

\* transporter.sendMail(...) is called: the send is in flight
SendMail(q, to) == [q EXCEPT !.trace = Append(@, Ev("send", to))]

\* the promise of the send in flight settles
Settled(q, to, ok) == [q EXCEPT !.trace = Append(@, Ev(IF ok THEN "sent" ELSE "failed", to))]

\* lines 85-123, after the record was written: up to the first await
StartNotifyNoAwait(q, enabled) ==
    IF enabled
    THEN [RespondSuccess(SendMail(q, "restaurant")) EXCEPT !.pc = "awaitRestaurant"]
    ELSE RespondSuccess(q)

StartNotify(q, enabled) ==
    IF enabled
    THEN [SendMail(q, "restaurant") EXCEPT !.pc = "awaitRestaurant"]
    ELSE RespondSuccess(q)

\* lines 123-162 and 165-175: the restaurant send settled; a rejection is caught
\* by the catch of line 165, which skips the guest send
OnRestaurantSettledRethrow(q, ok) ==
    IF ok
    THEN [SendMail(Settled(q, "restaurant", ok), "guest") EXCEPT !.pc = "awaitGuest"]
    ELSE RespondError(Settled(q, "restaurant", ok))

OnRestaurantSettled(q, ok) ==
    IF ok
    THEN [SendMail(Settled(q, "restaurant", ok), "guest") EXCEPT !.pc = "awaitGuest"]
    ELSE RespondSuccess(Settled(q, "restaurant", ok))

\* lines 162-175: the guest send settled
OnGuestSettled(q, ok) ==
    IF ok
    THEN RespondSuccess([Settled(q, "guest", ok) EXCEPT !.emailSent = TRUE])
    ELSE RespondSuccess(Settled(q, "guest", ok))

\* lines 56-123: the handler runs from its entry to its first await or response.
\* Requests are numbered in the order in which their handlers are entered.
\* adv is the number of milliseconds that pass between the clock read of line 69
\* and that of line 77.
Submit(r, body, adv, outcome) ==
    /\ serverPc = "listening"
    /\ req[r].pc = "idle"
    /\ \A r0 \in Reqs : r0 < r => req[r0].pc # "idle"
    /\ clock + adv <= MaxClock
    /\ LET q0 == [IdleReq EXCEPT !.body = body, !.trace = <<Did("received")>>]
       IN IF MissingRequired(body)
          THEN /\ req' = [req EXCEPT ![r] = Respond(q0, 400, FALSE, MsgMissing)]
               /\ UNCHANGED <<clock, files>>
          ELSE LET data == ReservationData(body, clock, clock + adv)
                   q1 == [q0 EXCEPT !.data = data, !.trace = Append(@, Did("validated"))]
                   q2 == [q1 EXCEPT !.trace = Append(@, Did("persisted"))]
               IN /\ clock' = clock + adv
                  /\ files' = WriteFileSync(files, FilePath(data), JsonStringify(data), outcome)
                  /\ req' = [req EXCEPT ![r] =
                                IF WriteThrows(outcome)
                                THEN RespondError(q1)
                                ELSE StartNotify(q2, EmailEnabled(emailConfigured, transporter))]
    /\ UNCHANGED <<startVars, listResp, batchVars>>

RestaurantSendSettled(r, ok) ==
    /\ req[r].pc = "awaitRestaurant"
    /\ req' = [req EXCEPT ![r] = OnRestaurantSettled(@, ok)]
    /\ UNCHANGED <<startVars, clock, files, listResp, batchVars>>

GuestSendSettled(r, ok) ==
    /\ req[r].pc = "awaitGuest"
    /\ req' = [req EXCEPT ![r] = OnGuestSettled(@, ok)]
    /\ UNCHANGED <<startVars, clock, files, listResp, batchVars>>

\* a millisecond passes
Tick ==
    /\ clock < MaxClock
    /\ clock' = clock + 1
    /\ UNCHANGED <<startVars, files, req, listResp, batchVars>>

\* lines 35-42, the part of initializeEmail() that runs before its await: with
\* both credentials the transporter is created
CreateTransport(creds) == IF creds THEN "gmail" ELSE "null"

\* lines 44-53 and 215-220: initializeEmail() resumes (with the credentials,
\* transporter.verify() settled) and resolves, and the server listens
InitializeEmail(verifyOk) ==
    /\ serverPc = "starting"
    /\ serverPc' = "listening"
    /\ emailConfigured' = (credsSet /\ verifyOk)
    /\ UNCHANGED <<startFiles, credsSet, transporter, clock, files, req, listResp,
                   batchVars>>

EmptyDir == [f \in {} |-> Null]
NoResp == [status |-> 0]

\* lines 24-27: the directory is created when it is missing and kept as it is
\* when it exists, then with the files of an earlier run of the server
EarlierRunDir == FileName(1) :> JsonStringify(ReservationData(BoBody, 1, 1))
StartDirs == {EmptyDir, EarlierRunDir}

\* the state when the module has run to the await of line 45
Init ==
    /\ serverPc = "starting"
    /\ credsSet \in BOOLEAN
    /\ transporter = CreateTransport(credsSet)
    /\ emailConfigured = FALSE
    /\ clock = 1
    /\ files \in StartDirs
    /\ startFiles = files
    /\ req = [r \in Reqs |-> IdleReq]
    /\ listResp = NoResp
    /\ bpc = "off"
    /\ bfiles = <<>>
    /\ bidx = 0
    /\ blog = <<>>

Next ==
    \/ \E v \in BOOLEAN : InitializeEmail(v)
    \/ Tick
    \/ \E r \in Reqs, body \in {b \in Bodies : MissingRequired(b)} : Submit(r, body, 0, "ok")
    \/ \E r \in Reqs, body \in {b \in Bodies : ~MissingRequired(b)}, adv \in {0, 1},
          o \in WriteOutcomes : Submit(r, body, adv, o)
    \/ \E r \in Reqs, ok \in BOOLEAN : RestaurantSendSettled(r, ok)
    \/ \E r \in Reqs, ok \in BOOLEAN : GuestSendSettled(r, ok)

Spec == Init /\ [][Next]_vars

----------------------------------------------------------------------------
(* Array.prototype.sort and the directory listing *)

\* SortCompare: the comparator's result as a number, NaN counting as +0
CompareValue(v) == IF v.t = "nan" THEN 0 ELSE v.n

\* (a, b) => b.submittedAt - a.submittedAt
BySubmittedAtDesc(a, b) == Subtract(Get(b, "submittedAt"), Get(a, "submittedAt"))

\* the default comparison of .sort() on the names reservation-<id>.json, whose
\* identifiers have the same number of digits
ByName(a, b) == Num(a.id - b.id)

\* the comparison a call of sort uses: its comparefn, or the default one
Compare(comparefn, a, b) ==
    IF comparefn = "bySubmittedAtDesc" THEN BySubmittedAtDesc(a, b) ELSE ByName(a, b)

\* array.sort(comparefn), a stable sort: each element goes behind the last
\* element that does not compare greater than it
ArraySort(arr, comparefn) ==
    LET RECURSIVE InsertSorted(_, _)
        InsertSorted(sorted, x) ==
            IF sorted = <<>> THEN <<x>>
            ELSE IF CompareValue(Compare(comparefn, sorted[Len(sorted)], x)) > 0
                 THEN Append(InsertSorted(SubSeq(sorted, 1, Len(sorted) - 1), x),
                             sorted[Len(sorted)])
                 ELSE Append(sorted, x)
        RECURSIVE SortPrefix(_)
        SortPrefix(n) ==
            IF n = 0 THEN <<>> ELSE InsertSorted(SortPrefix(n - 1), arr[n])
    IN SortPrefix(Len(arr))

\* fs.readdirSync(dataDir) yields the names in an order the file system picks
RECURSIVE Listings(_)
Listings(S) ==
    IF S = {} THEN {<<>>}
    ELSE UNION {{<<x>> \o rest : rest \in Listings(S \ {x})} : x \in S}

\* names.map(f => JSON.parse(fs.readFileSync(path.join(dataDir, f), 'utf8')))
ReadAll(dir, names) == [i \in 1..Len(names) |-> JsonParse(dir[names[i]])]

----------------------------------------------------------------------------
(* GET /api/reservations, server.js:195-207 *)

ListReservations(order) ==
    /\ serverPc = "listening"
    /\ LET names == SelectSeq(order, IsReservationFile)
       IN listResp' =
            IF \E i \in 1..Len(names) : JsonParseThrows(files[names[i]])
            THEN [status |-> 500, success |-> FALSE,
                  message |-> <<"Failed to retrieve reservations">>]
            ELSE [status |-> 200, success |-> TRUE,
                  reservations |-> ArraySort(ReadAll(files, names), "bySubmittedAtDesc")]
    /\ UNCHANGED <<startVars, clock, files, req, batchVars>>

\* The directories the server can leave behind: per identifier no file, the
\* record of a submission (its submittedAt the identifier's millisecond or the
\* next one), or the remains of a failed write; and possibly a file that is no
\* reservation.
StoredIds == 1..MaxStored
OtherText == [kind |-> "text"]

StoreOf(choice, other) ==
    [f \in {FileName(i) : i \in {j \in StoredIds : choice[j] # "none"}}
             \cup (IF other THEN {OtherFile} ELSE {}) |->
        IF f = OtherFile THEN OtherText
        ELSE CASE choice[f.id] = "ana" -> JsonStringify(ReservationData(AnaBody, f.id, f.id))
               [] choice[f.id] = "ana+1" ->
                      JsonStringify(ReservationData(AnaBody, f.id, f.id + 1))
               [] choice[f.id] = "bo" -> JsonStringify(ReservationData(BoBody, f.id, f.id))
               [] choice[f.id] = "bo+1" ->
                      JsonStringify(ReservationData(BoBody, f.id, f.id + 1))
               [] OTHER -> PartialText]

Stores ==
    {StoreOf(c, o) :
        c \in [StoredIds -> {"none", "ana", "ana+1", "bo", "bo+1", "partial"}],
        o \in BOOLEAN}

InitList ==
    /\ serverPc = "listening"
    /\ credsSet = FALSE
    /\ transporter = "null"
    /\ emailConfigured = FALSE
    /\ clock = MaxStored + 1
    /\ files \in Stores
    /\ startFiles = files
    /\ req = [r \in Reqs |-> IdleReq]
    /\ listResp = NoResp
    /\ bpc = "off"
    /\ bfiles = <<>>
    /\ bidx = 0
    /\ blog = <<>>

NextList == \E order \in Listings(DOMAIN files) : ListReservations(order)

SpecList == InitList /\ [][NextList]_vars

----------------------------------------------------------------------------
(* The batch sender, send-confirmation-emails.js:23-136 *)

BEv(f, e, to) == [file |-> f, e |-> e, to |-> to]

\* the head of the for loop, lines 42-118: read and parse record i and call
\* sendMail for the restaurant; past the last record the run finishes; a file
\* that does not parse throws to the outer catch, which exits with code 1
BeginRecord(names, i, log) ==
    IF i > Len(names)
    THEN [pc |-> "finished", idx |-> i, log |-> log]
    ELSE IF JsonParseThrows(files[names[i]])
         THEN [pc |-> "exit1", idx |-> i, log |-> log]
         ELSE [pc |-> "awaitRestaurant", idx |-> i,
               log |-> Append(log, BEv(names[i], "send", "restaurant"))]

\* lines 27-45: transporter.verify() settled; the directory is read, filtered
\* and sorted
BatchVerifySettled(ok, order) ==
    /\ bpc = "verifying"
    /\ IF ~ok
       THEN /\ bpc' = "exit1"
            /\ UNCHANGED <<bfiles, bidx, blog>>
       ELSE LET names == ArraySort(SelectSeq(order, IsReservationFile), "default")
                b == BeginRecord(names, 1, blog)
            IN /\ bfiles' = names
               /\ IF Len(names) = 0
                  THEN /\ bpc' = "returned"
                       /\ UNCHANGED <<bidx, blog>>
                  ELSE /\ bpc' = b.pc
                       /\ bidx' = b.idx
                       /\ blog' = b.log
    /\ UNCHANGED <<startVars, clock, files, req, listResp>>

\* lines 118-126: the restaurant send settled; a rejection goes to the catch of
\* line 124 and the loop moves on to the next record
BatchRestaurantSettled(ok) ==
    /\ bpc = "awaitRestaurant"
    /\ LET f == bfiles[bidx]
           b == BeginRecord(bfiles, bidx + 1, Append(blog, BEv(f, "failed", "restaurant")))
       IN IF ok
          THEN /\ bpc' = "awaitGuest"
               /\ blog' = blog \o <<BEv(f, "sent", "restaurant"), BEv(f, "send", "guest")>>
               /\ UNCHANGED bidx
          ELSE /\ bpc' = b.pc
               /\ bidx' = b.idx
               /\ blog' = b.log
    /\ UNCHANGED <<startVars, clock, files, req, listResp, bfiles>>

\* lines 121-126: the guest send settled
BatchGuestSettled(ok) ==
    /\ bpc = "awaitGuest"
    /\ LET f == bfiles[bidx]
           b == BeginRecord(bfiles, bidx + 1,
                            Append(blog, BEv(f, IF ok THEN "sent" ELSE "failed", "guest")))
       IN /\ bpc' = b.pc
          /\ bidx' = b.idx
          /\ blog' = b.log
    /\ UNCHANGED <<startVars, clock, files, req, listResp, bfiles>>

InitBatch ==
    /\ serverPc = "starting"
    /\ credsSet \in BOOLEAN
    /\ transporter = "null"
    /\ emailConfigured = FALSE
    /\ clock = MaxStored + 1
    /\ files \in Stores
    /\ startFiles = files
    /\ req = [r \in Reqs |-> IdleReq]
    /\ listResp = NoResp
    /\ bpc = "verifying"
    /\ bfiles = <<>>
    /\ bidx = 0
    /\ blog = <<>>

NextBatch ==
    \/ \E ok \in BOOLEAN, order \in Listings(DOMAIN files) : BatchVerifySettled(ok, order)
    \/ \E ok \in BOOLEAN : BatchRestaurantSettled(ok)
    \/ \E ok \in BOOLEAN : BatchGuestSettled(ok)

SpecBatch == InitBatch /\ [][NextBatch]_vars

----------------------------------------------------------------------------
(* Reading a handler's trace *)

Has(q, ev) == \E i \in 1..Len(q.trace) : q.trace[i] = ev
Count(q, e) == Cardinality({i \in 1..Len(q.trace) : q.trace[i].e = e})
Sends(q) == Count(q, "send")
Entered(q) == q.pc # "idle"
Done(q) == q.pc = "done"
\* the submission passed validation: an identifier was assigned
Valid(q) == q.data # Null
\* the record was written
Persisted(q) == Has(q, Did("persisted"))
\* a required field of the body is absent or empty
FieldMissing(q) == \E f \in Required : q.body[f] \in {Undef, Str("")}
\* the files that hold a record
RecordFiles == {f \in DOMAIN files : IsReservationFile(f) /\ files[f].kind = "json"}
\* the channel state of the glossary
ChannelReady == emailConfigured /\ transporter = "gmail"
ChannelUnavailable == ~emailConfigured /\ transporter = "gmail"
ChannelDisabled == ~emailConfigured /\ transporter = "null"

----------------------------------------------------------------------------
(* Claims about POST /api/reservations, checked under Spec *)

\* C1: a submission with one of name, phone, email, date, time, guests absent or
\* empty is answered 400 with success=false; that request writes no file (the
\* step that handles it leaves the directory unchanged) and attempts no send,
\* whatever the channel state.
C1_MissingFieldRejected ==
    /\ [](\A r \in Reqs :
            (Entered(req[r]) /\ FieldMissing(req[r])) =>
                /\ Done(req[r])
                /\ req[r].status = 400
                /\ req[r].success = FALSE
                /\ req[r].message = MsgMissing
                /\ Sends(req[r]) = 0
                /\ ~Valid(req[r]))
    /\ [][\A r \in Reqs :
            (~Entered(req[r]) /\ Entered(req'[r]) /\ FieldMissing(req'[r])) =>
                files' = files]_vars

C1_Witness ==
    \E r \in Reqs :
        /\ Done(req[r]) /\ req[r].body.guests = Undef /\ req[r].status = 400
        /\ ChannelReady
        /\ \E r2 \in Reqs : Done(req[r2]) /\ req[r2].body.email = Str("")

\* the record files the process found when it started
StartRecordFiles ==
    {f \in DOMAIN startFiles : IsReservationFile(f) /\ startFiles[f].kind = "json"}
\* the identifier of f was assigned to a valid submission
Assigned(f) == \E r \in Reqs : Valid(req[r]) /\ f = FileName(req[r].data.id.n)

\* C2 as claimed: the store gains one record file per accepted submission,
\* every accepted submission's record is stored as written, and no record the
\* store held is overwritten, changed or lost.
C2_OneFilePerSubmission ==
    /\ Cardinality(RecordFiles) =
          Cardinality(StartRecordFiles) + Cardinality({r \in Reqs : Persisted(req[r])})
    /\ \A r \in Reqs :
          Persisted(req[r]) =>
              /\ FileName(req[r].data.id.n) \in DOMAIN files
              /\ files[FileName(req[r].data.id.n)] = JsonStringify(req[r].data)
    /\ \A f \in DOMAIN startFiles : f \in DOMAIN files /\ files[f] = startFiles[f]

\* C2, amended: every file was there at the start or is named by the identifier
\* of a valid submission; a file whose identifier no valid submission was
\* assigned is as it was at the start; a record file whose identifier was
\* assigned holds the record of an accepted submission with that identifier or
\* what it held at the start; an accepted submission whose identifier no other
\* valid submission shares has its file, holding its record unchanged from the
\* write on.
C2_OneFilePerIdentifier ==
    /\ \A f \in DOMAIN files : f \in DOMAIN startFiles \/ Assigned(f)
    /\ \A f \in DOMAIN startFiles :
          f \in DOMAIN files /\ (~Assigned(f) => files[f] = startFiles[f])
    /\ \A f \in RecordFiles :
          \/ f \in DOMAIN startFiles /\ files[f] = startFiles[f]
          \/ \E r \in Reqs :
                /\ Persisted(req[r])
                /\ f = FileName(req[r].data.id.n)
                /\ files[f] = JsonStringify(req[r].data)
    /\ \A r \in Reqs :
          (/\ Persisted(req[r])
           /\ \A r2 \in Reqs \ {r} :
                 Valid(req[r2]) => req[r2].data.id # req[r].data.id) =>
              /\ FileName(req[r].data.id.n) \in DOMAIN files
              /\ files[FileName(req[r].data.id.n)] = JsonStringify(req[r].data)

C2_Witness ==
    \E r1, r2 \in Reqs :
        /\ Persisted(req[r1]) /\ Persisted(req[r2])
        /\ Done(req[r1]) /\ Done(req[r2])
        /\ req[r1].data.id # req[r2].data.id
        /\ startFiles = EmptyDir
        /\ Cardinality(RecordFiles) = 2

\* C3 as claimed: with the channel Ready, every persisted submission makes
\* exactly two send attempts, the guest send also after the restaurant send
\* failed.
C3_TwoSendsAlways ==
    \A r \in Reqs :
        (ChannelReady /\ Persisted(req[r]) /\ Done(req[r])) => Sends(req[r]) = 2

\* C4: a persisted submission is answered 200 with success=true whatever the
\* outcome of its sends, and a step in which one of its sends settles leaves
\* the stored files unchanged.
C4_NotificationNeverFails ==
    /\ [](\A r \in Reqs :
            (Persisted(req[r]) /\ Done(req[r])) =>
                (req[r].status = 200 /\ req[r].success = TRUE))
    /\ [][\A r \in Reqs :
            (req[r].pc \in {"awaitRestaurant", "awaitGuest"} /\ req'[r] # req[r]) =>
                files' = files]_vars

C4_Witness ==
    \E r1, r2 \in Reqs :
        /\ Done(req[r1]) /\ Has(req[r1], Ev("failed", "restaurant"))
        /\ Done(req[r2]) /\ Has(req[r2], Ev("failed", "guest"))
        /\ req[r1].status = 200 /\ req[r2].status = 200

\* C5: while the channel is not Ready (Disabled or Unavailable) a valid
\* submission attempts no send and finishes in the step that handles it; when
\* its write succeeded its record is stored and it is answered 200 with
\* success=true, and the only error response is that of a failed write.
C5_NotReadySkipsSends ==
    \A r \in Reqs :
        (~ChannelReady /\ Valid(req[r])) =>
            /\ Done(req[r])
            /\ Sends(req[r]) = 0
            /\ \/ /\ Persisted(req[r])
                  /\ req[r].status = 200
                  /\ req[r].success = TRUE
                  /\ FileName(req[r].data.id.n) \in DOMAIN files
               \/ /\ ~Persisted(req[r])
                  /\ req[r].status = 500

C5_Witness ==
    \E r \in Reqs :
        /\ ChannelUnavailable
        /\ Persisted(req[r]) /\ Done(req[r]) /\ req[r].status = 200
        /\ Sends(req[r]) = 0

\* C6: a valid submission whose write failed is answered 500 with success=false
\* and a message that carries the fallback phone number, and attempts no send.
C6_WriteFailureIs500 ==
    \A r \in Reqs :
        (Valid(req[r]) /\ ~Persisted(req[r])) =>
            /\ Done(req[r])
            /\ req[r].status = 500
            /\ req[r].success = FALSE
            /\ \E i \in 1..Len(req[r].message) : req[r].message[i] = FallbackPhone
            /\ Sends(req[r]) = 0

C6_Witness ==
    \E r \in Reqs :
        /\ ChannelReady
        /\ Valid(req[r]) /\ ~Persisted(req[r]) /\ req[r].status = 500
        /\ FileName(req[r].data.id.n) \in DOMAIN files
        /\ files[FileName(req[r].data.id.n)] = PartialText

\* C9: a 200 response carries the "confirmation email" message exactly when the
\* restaurant send and the guest send of its submission both succeeded, and the
\* "we will contact you" message otherwise.
C9_MessageIffBothSent ==
    \A r \in Reqs :
        (Done(req[r]) /\ req[r].status = 200) =>
            IF Has(req[r], Ev("sent", "restaurant")) /\ Has(req[r], Ev("sent", "guest"))
            THEN req[r].message = MsgEmailSent
            ELSE req[r].message = MsgReceived

C9_Witness ==
    \E r1, r2 \in Reqs :
        /\ Done(req[r1]) /\ req[r1].message = MsgEmailSent
        /\ Done(req[r2]) /\ req[r2].message = MsgReceived
        /\ Has(req[r2], Ev("sent", "restaurant"))
        /\ Has(req[r2], Ev("failed", "guest"))

\* C10: a handler's calls happen in the order received, validated, persisted,
\* restaurant send, guest send, responded, none of them twice: a send is made
\* only after the record was written, the guest send only after the restaurant
\* send finished, there is one response, it is the handler's last call and no
\* send is in flight when it is made.
C10_HandlerOrder ==
    \A r \in Reqs :
        LET tr == req[r].trace
            n == Len(tr)
            Before(i, ev) == \E j \in 1..(i - 1) : tr[j] = ev
            SettledBefore(i, to) == Before(i, Ev("sent", to)) \/ Before(i, Ev("failed", to))
        IN /\ \A i, j \in 1..n : tr[i] = tr[j] => i = j
           /\ Entered(req[r]) => tr[1] = Did("received")
           /\ Count(req[r], "responded") = (IF Done(req[r]) THEN 1 ELSE 0)
           /\ Done(req[r]) => tr[n] = Did("responded")
           /\ \A i \in 1..n :
                 /\ tr[i] = Did("persisted") => Before(i, Did("validated"))
                 /\ tr[i].e = "send" => Before(i, Did("persisted"))
                 /\ tr[i] = Ev("send", "guest") => SettledBefore(i, "restaurant")
                 /\ tr[i] = Did("responded") =>
                       \A j \in 1..(i - 1) : tr[j].e = "send" => SettledBefore(i, tr[j].to)
           /\ (Done(req[r]) /\ req[r].status = 200) => Persisted(req[r])

C10_Witness ==
    \E r \in Reqs :
        /\ Done(req[r])
        /\ req[r].trace = <<Did("received"), Did("validated"), Did("persisted"),
                            Ev("send", "restaurant"), Ev("sent", "restaurant"),
                            Ev("send", "guest"), Ev("sent", "guest"), Did("responded")>>

----------------------------------------------------------------------------
(* Claims about GET /api/reservations, checked under SpecList *)

SubmittedMs(rec) == Get(rec, "submittedAt").ms

\* C7 as claimed: whatever order the directory listing has, a 200 response
\* holds every stored record, latest submission first.
C7_ListedNewestFirst ==
    listResp.status = 200 =>
        /\ Len(listResp.reservations) = Cardinality(RecordFiles)
        /\ \A i, j \in 1..Len(listResp.reservations) :
              i < j => SubmittedMs(listResp.reservations[i])
                          >= SubmittedMs(listResp.reservations[j])

----------------------------------------------------------------------------
(* Claims about the batch sender, checked under SpecBatch *)

BatchSends == {i \in 1..Len(blog) : blog[i].e = "send"}

\* C8 as claimed: a run that went through its N records made 2N send attempts,
\* a restaurant send and a guest send for every record.
C8_BatchTwoSendsPerRecord ==
    bpc = "finished" =>
        /\ Cardinality(BatchSends) = 2 * Len(bfiles)
        /\ \A k \in 1..Len(bfiles) :
              \A to \in {"restaurant", "guest"} :
                  \E i \in 1..Len(blog) : blog[i] = BEv(bfiles[k], "send", to)

====
